---- MODULE Spec2Model ----
(***************************************************************************)
(* Model of src/fileExtractor/main.py: the extract_text handler of the     *)
(* document text extraction service, run by several concurrent requests    *)
(* over one shared temporary directory.                                    *)
(*                                                                         *)
(* A request is a process r.  pc[r] names the source line the request is   *)
(* about to execute.  The temporary directory is the function disk from    *)
(* the paths that exist to the files stored there.                         *)
(***************************************************************************)
EXTENDS Naturals, Sequences, FiniteSets

VARIABLES
    pc,             \* pc[r]: the line request r executes next
    file,           \* file[r]: the UploadFile of the request (filename, content_type, payload)
    temp_file,      \* local temp_file: None or the NamedTemporaryFile wrapper
    temp_file_path, \* local temp_file_path: Unassigned or a path
    content,        \* local content: the bytes read from the upload
    text_content,   \* local text_content: the exported markdown
    e,              \* the exception raised inside the try block (None if none)
    pending,        \* what the try/except left to propagate: return value or exception
    cleanup,        \* what the finally block did: None, "skipped", "unlinked", or an error
    response,       \* what the handler finally returned or raised (None while running)
    unlinks,        \* number of os.unlink calls made by the request
    disk,           \* the temporary directory: path -> file
    fname,          \* suffix study: the filename under study
    fsuffix         \* suffix study: Path(fname).suffix once computed

vars == <<pc, file, temp_file, temp_file_path, content, text_content, e,
          pending, cleanup, response, unlinks, disk, fname, fsuffix>>

(***************************************************************************)
(* Bounds                                                                  *)
(***************************************************************************)
NumReqs == 2      \* concurrent requests
NumNames == 2     \* random names the temporary-file facility can draw
MaxLen == 4       \* longest filename of the suffix study

Reqs == 1..NumReqs
Names == 1..NumNames

\* Python's None, for the string-valued locals
None == "None"
\* None where a record is expected (temp_file, pending, response)
NoneRec == [kind |-> "None"]
\* None where a filename (a sequence of characters) is expected
NoFilename == <<"None">>
\* a local that no assignment has reached yet
Unassigned == <<>>
\* the suffix study has not computed the suffix yet
Unset == <<"Unset">>

(***************************************************************************)
(* pathlib: Path(filename).suffix.  A filename is a sequence of            *)
(* one-character strings.                                                  *)
(***************************************************************************)
Chars == {"a", ".", "/"}

RECURSIVE SplitSep(_, _, _)
\* rel.split('/'): acc holds the finished components, cur the current one
SplitSep(s, acc, cur) ==
    IF s = <<>> THEN Append(acc, cur)
    ELSE IF Head(s) = "/" THEN SplitSep(Tail(s), Append(acc, cur), <<>>)
         ELSE SplitSep(Tail(s), acc, Append(cur, Head(s)))

\* the components kept by the parser: "if x and x != '.'"
ParseParts(s) == SelectSeq(SplitSep(s, <<>>, <<>>), LAMBDA x : x # <<>> /\ x # <<".">>)

\* PurePath.name: the final component, '' when there is none
PathName(s) ==
    LET parts == ParseParts(s)
    IN IF Len(parts) = 0 THEN <<>> ELSE parts[Len(parts)]

\* name.rfind('.'), 0-based, as a natural number shifted by one: 0 means -1 (not found)
RFindDot(name) ==
    LET hits == {i \in 1..Len(name) : name[i] = "."}
    IN IF hits = {} THEN 0 ELSE CHOOSE i \in hits : \A j \in hits : j <= i

PathSuffix_LeadingDot(s) ==
    LET name == PathName(s)
        k == RFindDot(name)
    IN IF k >= 1 /\ k < Len(name) THEN SubSeq(name, k, Len(name)) ELSE <<>>

\* PurePath.suffix: "if 0 < i < len(name) - 1: return name[i:]" with i = k - 1
PathSuffix(s) ==
    LET name == PathName(s)
        k == RFindDot(name)
    IN IF k > 1 /\ k < Len(name) THEN SubSeq(name, k, Len(name)) ELSE <<>>

(***************************************************************************)
(* The uploads a client may send: no filename, an empty filename, and two  *)
(* uploads of the same filename with different payloads, one of them       *)
(* without a declared content type.                                        *)
(***************************************************************************)
NoteTxt == <<"a", ".", "a">>
Uploads ==
    { [filename |-> NoFilename, content_type |-> None,         payload |-> <<1>>],
      [filename |-> <<>>,      content_type |-> "text/plain", payload |-> <<1>>],
      [filename |-> NoteTxt,   content_type |-> "text/plain", payload |-> <<1>>],
      [filename |-> NoteTxt,   content_type |-> None,         payload |-> <<2>>] }
NoUpload == [filename |-> NoFilename, content_type |-> None, payload |-> <<>>]

\* "not file.filename"
FilenameMissing_NoneOnly(u) == u.filename = NoFilename

FilenameMissing(u) == u.filename = NoFilename \/ u.filename = <<>>

(***************************************************************************)
(* The conversion engine, an opaque deterministic function of the bytes    *)
(* found at the path and of the path's extension.                          *)
(***************************************************************************)
ConvertDocument(path, data) == [src |-> data, fmt |-> path[2]]
ExportToMarkdown(doc) == <<"md", doc.fmt, doc.src>>

(***************************************************************************)
(* Responses                                                               *)
(***************************************************************************)
Prefix == "Error processing document: "
HTTPException(code, detail) == [kind |-> "HTTPException", status_code |-> code, detail |-> detail]
Unhandled(what) == [kind |-> "Unhandled", error |-> what]

SuccessBody_Partial(r) ==
    [kind |-> "body", filename |-> file[r].filename, content_type |-> None,
     text |-> text_content[r], success |-> TRUE]

\* lines 59-64
SuccessBody(r) ==
    [kind |-> "body", filename |-> file[r].filename, content_type |-> file[r].content_type,
     text |-> text_content[r], success |-> TRUE]

\* lines 67-70
ConversionFailure(msg) == HTTPException(500, Prefix \o msg)

(***************************************************************************)
(* Initial state                                                           *)
(***************************************************************************)
HandlerInit ==
    /\ pc = [r \in Reqs |-> "idle"]
    /\ file = [r \in Reqs |-> NoUpload]
    /\ temp_file = [r \in Reqs |-> NoneRec]
    /\ temp_file_path = [r \in Reqs |-> Unassigned]
    /\ content = [r \in Reqs |-> Unassigned]
    /\ text_content = [r \in Reqs |-> Unassigned]
    /\ e = [r \in Reqs |-> None]
    /\ pending = [r \in Reqs |-> NoneRec]
    /\ cleanup = [r \in Reqs |-> None]
    /\ response = [r \in Reqs |-> NoneRec]
    /\ unlinks = [r \in Reqs |-> 0]
    /\ disk = [q \in {} |-> NoneRec]

Init == HandlerInit /\ fname = <<>> /\ fsuffix = Unset

handlerVars == <<pc, file, temp_file, temp_file_path, content, text_content, e,
                 pending, cleanup, response, unlinks, disk>>
studyVars == <<fname, fsuffix>>

(***************************************************************************)
(* Helpers on the shared directory                                         *)
(***************************************************************************)
Exists(p) == p \in DOMAIN disk
Remove(p) == [q \in DOMAIN disk \ {p} |-> disk[q]]
Put(p, f) == [q \in DOMAIN disk \cup {p} |-> IF q = p THEN f ELSE disk[q]]

\* with-exit / close(): the buffer is flushed to the file and the handle closed
Closed(r) ==
    [temp_file[r] EXCEPT !.buf = <<>>, !.closed = TRUE]
FlushedDisk(r) ==
    LET p == temp_file[r].name
    IN IF Exists(p) THEN Put(p, [disk[p] EXCEPT !.data = disk[p].data \o temp_file[r].buf])
       ELSE disk

\* an Exception raised at pc[r]: control goes to the except clause
Raise(r, msg) ==
    /\ e' = [e EXCEPT ![r] = msg]
    /\ pc' = [pc EXCEPT ![r] = "l66"]

(***************************************************************************)
(* The handler, one action per step.                                       *)
(***************************************************************************)

\* the framework hands an upload to the handler (line 28)
Receive(r) ==
    /\ pc[r] = "idle"
    /\ UNCHANGED studyVars
    /\ \E u \in Uploads : file' = [file EXCEPT ![r] = u]
    /\ pc' = [pc EXCEPT ![r] = "l34"]
    /\ UNCHANGED <<temp_file, temp_file_path, content, text_content, e, pending,
                   cleanup, response, unlinks, disk>>

\* lines 34-38: the 400 is raised outside the try, so no finally runs
CheckFilename(r) ==
    /\ pc[r] = "l34"
    /\ UNCHANGED studyVars
    /\ IF FilenameMissing(file[r])
       THEN /\ response' = [response EXCEPT ![r] = HTTPException(400, "No file provided")]
            /\ pc' = [pc EXCEPT ![r] = "done"]
            /\ UNCHANGED temp_file
       ELSE /\ temp_file' = [temp_file EXCEPT ![r] = NoneRec]
            /\ pc' = [pc EXCEPT ![r] = "l41"]
            /\ UNCHANGED response
    /\ UNCHANGED <<file, temp_file_path, content, text_content, e, pending,
                   cleanup, unlinks, disk>>

FreshPaths_AnyName(sfx) == {<<n, sfx>> : n \in Names}

\* the names NamedTemporaryFile may return: it opens with O_EXCL, so only
\* names that do not exist in the directory
FreshPaths(sfx) == {p \in {<<n, sfx>> : n \in Names} : ~Exists(p)}

\* lines 41-42: suffix, then NamedTemporaryFile(delete=False, suffix=suffix)
CreateTemp(r) ==
    /\ pc[r] = "l41"
    /\ UNCHANGED studyVars
    /\ LET suffix == PathSuffix(file[r].filename)
       IN \/ \E p \in FreshPaths(suffix) :
               /\ disk' = Put(p, [data |-> <<>>, creator |-> r])
               /\ temp_file' = [temp_file EXCEPT ![r] =
                                  [kind |-> "file", name |-> p, buf |-> <<>>, closed |-> FALSE]]
               /\ pc' = [pc EXCEPT ![r] = "l43"]
               /\ UNCHANGED e
          \/ \* the file cannot be created: temp_file is never bound
             /\ Raise(r, "create failed")
             /\ UNCHANGED <<disk, temp_file>>
    /\ UNCHANGED <<file, temp_file_path, content, text_content, pending,
                   cleanup, response, unlinks>>

AssignPath_Skip(r) ==
    /\ pc[r] = "l43"
    /\ UNCHANGED studyVars
    /\ pc' = [pc EXCEPT ![r] = "l46"]
    /\ UNCHANGED <<file, temp_file, temp_file_path, content, text_content, e, pending,
                   cleanup, response, unlinks, disk>>

\* line 43
AssignPath(r) ==
    /\ pc[r] = "l43"
    /\ UNCHANGED studyVars
    /\ temp_file_path' = [temp_file_path EXCEPT ![r] = temp_file[r].name]
    /\ pc' = [pc EXCEPT ![r] = "l46"]
    /\ UNCHANGED <<file, temp_file, content, text_content, e, pending,
                   cleanup, response, unlinks, disk>>

\* an exception leaves the with block: the file is closed on the way out
LeaveWith(r) ==
    /\ temp_file' = [temp_file EXCEPT ![r] = Closed(r)]
    /\ disk' = FlushedDisk(r)

\* line 46: content = await file.read().  The await is where a cancellation
\* (a BaseException, which "except Exception" does not catch) can arrive.
ReadUpload(r) ==
    /\ pc[r] = "l46"
    /\ UNCHANGED studyVars
    /\ \/ /\ content' = [content EXCEPT ![r] = file[r].payload]
          /\ pc' = [pc EXCEPT ![r] = "l47"]
          /\ UNCHANGED <<e, pending, temp_file, disk>>
       \/ /\ Raise(r, "read failed")
          /\ LeaveWith(r)
          /\ UNCHANGED <<content, pending>>
       \/ /\ pending' = [pending EXCEPT ![r] = Unhandled("CancelledError")]
          /\ pc' = [pc EXCEPT ![r] = "l72"]
          /\ LeaveWith(r)
          /\ UNCHANGED <<content, e>>
    /\ UNCHANGED <<file, temp_file_path, text_content, cleanup, response, unlinks>>

\* line 47: temp_file.write(content) fills the file object's buffer
WriteContent(r) ==
    /\ pc[r] = "l47"
    /\ UNCHANGED studyVars
    /\ \/ /\ temp_file' = [temp_file EXCEPT ![r].buf = @ \o content[r]]
          /\ pc' = [pc EXCEPT ![r] = "l48"]
          /\ UNCHANGED <<e, disk>>
       \/ /\ Raise(r, "write failed")
          /\ LeaveWith(r)
    /\ UNCHANGED <<file, temp_file_path, content, text_content, pending,
                   cleanup, response, unlinks>>

\* line 48: temp_file.flush() moves the buffer to the file
Flush(r) ==
    /\ pc[r] = "l48"
    /\ UNCHANGED studyVars
    /\ \/ /\ disk' = FlushedDisk(r)
          /\ temp_file' = [temp_file EXCEPT ![r].buf = <<>>]
          /\ pc' = [pc EXCEPT ![r] = "l49"]
          /\ UNCHANGED e
       \/ /\ Raise(r, "flush failed")
          /\ temp_file' = [temp_file EXCEPT ![r].buf = <<>>, ![r].closed = TRUE]
          /\ UNCHANGED disk
    /\ UNCHANGED <<file, temp_file_path, content, text_content, pending,
                   cleanup, response, unlinks>>

CloseTemp_StayOpen(r) ==
    /\ pc[r] = "l49"
    /\ UNCHANGED studyVars
    /\ pc' = [pc EXCEPT ![r] = "l51"]
    /\ UNCHANGED <<file, temp_file, temp_file_path, content, text_content, e, pending,
                   cleanup, response, unlinks, disk>>

\* end of the with block (after line 48): the file is closed
CloseTemp(r) ==
    /\ pc[r] = "l49"
    /\ UNCHANGED studyVars
    /\ LeaveWith(r)
    /\ pc' = [pc EXCEPT ![r] = "l51"]
    /\ UNCHANGED <<file, temp_file_path, content, text_content, e, pending,
                   cleanup, response, unlinks>>

\* line 51: converter = DocumentConverter()
Construct(r) ==
    /\ pc[r] = "l51"
    /\ UNCHANGED studyVars
    /\ \/ /\ pc' = [pc EXCEPT ![r] = "l54"]
          /\ UNCHANGED e
       \/ Raise(r, "construct failed")
    /\ UNCHANGED <<file, temp_file, temp_file_path, content, text_content, pending,
                   cleanup, response, unlinks, disk>>

\* lines 54-57: result = converter.convert(str(temp_file_path)), which reads
\* the file at that path, then text_content = result.document.export_to_markdown()
Convert(r) ==
    /\ pc[r] = "l54"
    /\ UNCHANGED studyVars
    /\ \/ /\ Exists(temp_file_path[r])
          /\ text_content' = [text_content EXCEPT ![r] =
                ExportToMarkdown(ConvertDocument(temp_file_path[r], disk[temp_file_path[r]].data))]
          /\ pc' = [pc EXCEPT ![r] = "l59"]
          /\ UNCHANGED e
       \/ /\ Raise(r, "convert failed")
          /\ UNCHANGED text_content
       \/ /\ Exists(temp_file_path[r])
          /\ Raise(r, "export failed")
          /\ UNCHANGED text_content
    /\ UNCHANGED <<file, temp_file, temp_file_path, content, pending,
                   cleanup, response, unlinks, disk>>

\* lines 59-64: the success body is built; the finally block runs before it leaves
Respond(r) ==
    /\ pc[r] = "l59"
    /\ UNCHANGED studyVars
    /\ pending' = [pending EXCEPT ![r] = SuccessBody(r)]
    /\ pc' = [pc EXCEPT ![r] = "l72"]
    /\ UNCHANGED <<file, temp_file, temp_file_path, content, text_content, e,
                   cleanup, response, unlinks, disk>>

\* lines 66-70: except Exception as e: raise HTTPException(500, ...)
Except(r) ==
    /\ pc[r] = "l66"
    /\ UNCHANGED studyVars
    /\ pending' = [pending EXCEPT ![r] = ConversionFailure(e[r])]
    /\ pc' = [pc EXCEPT ![r] = "l72"]
    /\ UNCHANGED <<file, temp_file, temp_file_path, content, text_content, e,
                   cleanup, response, unlinks, disk>>

Cleanup_OnlyOnSuccess(r) ==
    /\ pc[r] = "l72"
    /\ UNCHANGED studyVars
    /\ IF pending[r].kind = "body"
       THEN /\ unlinks' = [unlinks EXCEPT ![r] = @ + 1]
            /\ disk' = Remove(temp_file_path[r])
            /\ cleanup' = [cleanup EXCEPT ![r] = "unlinked"]
       ELSE /\ cleanup' = [cleanup EXCEPT ![r] = "skipped"]
            /\ UNCHANGED <<unlinks, disk>>
    /\ pc' = [pc EXCEPT ![r] = "l76"]
    /\ UNCHANGED <<file, temp_file, temp_file_path, content, text_content, e,
                   pending, response>>

\* lines 72-75: if temp_file and temp_file_path.exists(): os.unlink(temp_file_path)
Cleanup(r) ==
    /\ pc[r] = "l72"
    /\ UNCHANGED studyVars
    /\ IF temp_file[r] = NoneRec
       THEN \* the guard short-circuits
            /\ cleanup' = [cleanup EXCEPT ![r] = "skipped"]
            /\ UNCHANGED <<unlinks, disk>>
       ELSE IF temp_file_path[r] = Unassigned
       THEN \* reading a local that was never assigned
            /\ cleanup' = [cleanup EXCEPT ![r] = "UnboundLocalError"]
            /\ UNCHANGED <<unlinks, disk>>
       ELSE IF ~Exists(temp_file_path[r])
       THEN /\ cleanup' = [cleanup EXCEPT ![r] = "skipped"]
            /\ UNCHANGED <<unlinks, disk>>
       ELSE /\ unlinks' = [unlinks EXCEPT ![r] = @ + 1]
            /\ \/ /\ disk' = Remove(temp_file_path[r])
                  /\ cleanup' = [cleanup EXCEPT ![r] = "unlinked"]
               \/ \* os.unlink raises: the file stays
                  /\ cleanup' = [cleanup EXCEPT ![r] = "OSError"]
                  /\ UNCHANGED disk
    /\ pc' = [pc EXCEPT ![r] = "l76"]
    /\ UNCHANGED <<file, temp_file, temp_file_path, content, text_content, e,
                   pending, response>>

\* an exception raised in the finally block replaces the pending return
\* value or exception
Propagated(r) ==
    IF cleanup[r] \in {"OSError", "UnboundLocalError"} THEN Unhandled(cleanup[r])
    ELSE pending[r]

\* the handler hands its return value or exception to the framework
Leave(r) ==
    /\ pc[r] = "l76"
    /\ UNCHANGED studyVars
    /\ response' = [response EXCEPT ![r] = Propagated(r)]
    /\ pc' = [pc EXCEPT ![r] = "done"]
    /\ UNCHANGED <<file, temp_file, temp_file_path, content, text_content, e,
                   pending, cleanup, unlinks, disk>>

Next ==
    \E r \in Reqs :
    \/ Receive(r)
    \/ CheckFilename(r)
    \/ CreateTemp(r)
    \/ AssignPath(r)
    \/ ReadUpload(r)
    \/ WriteContent(r)
    \/ Flush(r)
    \/ CloseTemp(r)
    \/ Construct(r)
    \/ Convert(r)
    \/ Respond(r)
    \/ Except(r)
    \/ Cleanup(r)
    \/ Leave(r)

Spec == Init /\ [][Next]_vars

(***************************************************************************)
(* Suffix study: Path(filename).suffix over every filename of at most      *)
(* MaxLen characters.                                                      *)
(***************************************************************************)
RECURSIVE StringsUpTo(_)
StringsUpTo(n) ==
    IF n = 0 THEN {<<>>}
    ELSE LET shorter == StringsUpTo(n - 1)
         IN shorter \cup {Append(s, c) : s \in shorter, c \in Chars}

SuffixInit == HandlerInit /\ fname \in StringsUpTo(MaxLen) \ {<<>>} /\ fsuffix = Unset

\* line 41 on the filename under study
ApplySuffix ==
    /\ fsuffix = Unset
    /\ fsuffix' = PathSuffix(fname)
    /\ UNCHANGED <<fname, handlerVars>>

SuffixNext == ApplySuffix

SuffixSpec == SuffixInit /\ [][SuffixNext]_vars

(***************************************************************************)
(* Properties                                                              *)
(***************************************************************************)
\* the files in the directory that request r created
OwnFiles(r) == {p \in DOMAIN disk : disk[p].creator = r}
\* r created a temporary file
Created(r) == temp_file[r] # NoneRec
\* r is between the creation of its file and its cleanup
Holding(r) == Created(r) /\ pc[r] \notin {"idle", "l34", "l41", "l76", "done"}
\* the markdown the engine yields for r's own payload under r's own extension
OwnMarkdown(r) == <<"md", temp_file_path[r][2], file[r].payload>>

\* C1 as stated: once a request has ended, whatever its outcome, the temporary
\* file it created is no longer on disk.
C1_FileGoneAfterEveryOutcome ==
    \A r \in Reqs : pc[r] = "done" => OwnFiles(r) = {}

\* C1 amended: once a request has ended, the temporary file it created is no
\* longer on disk, except when os.unlink itself failed; in that case, and only
\* then, the file is still there.
C1_FileGoneUnlessUnlinkFails ==
    \A r \in Reqs : pc[r] = "done" => (OwnFiles(r) = {} <=> cleanup[r] # "OSError")

C1_Witness ==
    \E r \in Reqs :
        /\ pc[r] = "done" /\ Created(r) /\ OwnFiles(r) = {}
        /\ response[r].kind = "HTTPException" /\ response[r].status_code = 500

\* a request whose filename is empty or absent has ended with the 400 as soon as
\* it has passed line 34, and has created nothing
C2_Missing400 ==
    \A r \in Reqs :
        (file[r].filename \in {NoFilename, <<>>} /\ pc[r] \notin {"idle", "l34"}) =>
            /\ pc[r] = "done"
            /\ response[r] = [kind |-> "HTTPException", status_code |-> 400,
                              detail |-> "No file provided"]
            /\ ~Created(r) /\ OwnFiles(r) = {} /\ unlinks[r] = 0

\* the step that rejects such a request does not change the directory
C2_DiskUntouched ==
    \A r \in Reqs :
        (pc[r] = "l34" /\ pc'[r] # "l34" /\ file[r].filename \in {NoFilename, <<>>}) =>
            (disk' = disk /\ pc'[r] = "done")

\* C2: a request whose filename is empty or absent ends at once with status 400
\* and detail "No file provided"; it never creates a temporary file, and the
\* step that handles it leaves the directory as it was.
C2_NoFileOn400 == []C2_Missing400 /\ [][C2_DiskUntouched]_vars

C2_Witness ==
    \E r \in Reqs :
        /\ pc[r] = "done" /\ file[r].filename = <<>>
        /\ response[r].status_code = 400
        /\ DOMAIN disk # {}

\* C3 as stated: a request in which a step of the try block failed ends with
\* status 500 and detail "Error processing document: " followed by the failure's
\* description.
C3_FailureYields500 ==
    \A r \in Reqs :
        (pc[r] = "done" /\ e[r] # None) =>
            response[r] = [kind |-> "HTTPException", status_code |-> 500,
                           detail |-> "Error processing document: " \o e[r]]

\* C4: a success body is returned only by a request none of whose steps failed,
\* and it carries the upload's filename and declared content type, the markdown
\* of the request's own payload, and success = TRUE.
C4_SuccessBodyComplete ==
    \A r \in Reqs :
        response[r].kind = "body" =>
            /\ e[r] = None
            /\ cleanup[r] = "unlinked"
            /\ content[r] = file[r].payload
            /\ response[r] = [kind |-> "body", filename |-> file[r].filename,
                              content_type |-> file[r].content_type,
                              text |-> OwnMarkdown(r), success |-> TRUE]

C4_Witness ==
    \E r \in Reqs :
        /\ response[r].kind = "body"
        /\ response[r].content_type = None
        /\ response[r].text = <<"md", <<".", "a">>, <<2>>>>

\* C5: two requests in flight never hold the same temporary path, the file of a
\* request in flight is on disk and still the one it created, and a success body
\* carries the markdown of that request's own payload.
C5_NoInterference ==
    /\ \A r1, r2 \in Reqs :
          (r1 # r2 /\ Holding(r1) /\ Holding(r2)) => temp_file[r1].name # temp_file[r2].name
    /\ \A r \in Reqs :
          Holding(r) => /\ Exists(temp_file[r].name)
                        /\ disk[temp_file[r].name].creator = r
    /\ \A r \in Reqs :
          response[r].kind = "body" => response[r].text = OwnMarkdown(r)

C5_Witness ==
    \E r1, r2 \in Reqs :
        /\ r1 # r2
        /\ file[r1].filename = file[r2].filename
        /\ file[r1].payload # file[r2].payload
        /\ pc[r1] = "l54" /\ pc[r2] = "l54"

\* C6 as stated: when os.unlink fails in the cleanup, the caller still receives
\* the response the request had built (the success body or the 500).
C6_UnlinkFailureSwallowed ==
    \A r \in Reqs :
        (pc[r] = "done" /\ cleanup[r] = "OSError") => response[r] = pending[r]

\* C7: a request that created a temporary file makes exactly one os.unlink call
\* by the time it leaves, on every exit path; a request that created none makes
\* no call.
C7_ExactlyOneUnlink ==
    \A r \in Reqs :
        /\ unlinks[r] <= 1
        /\ pc[r] \in {"l76", "done"} => unlinks[r] = (IF Created(r) THEN 1 ELSE 0)

C7_Witness ==
    \E r \in Reqs :
        /\ pc[r] = "done" /\ unlinks[r] = 1
        /\ response[r] = [kind |-> "Unhandled", error |-> "CancelledError"]

\* C8: when the engine is invoked the whole payload is in the file, the buffer
\* is empty and the file closed, and the file exists; the markdown is exported
\* before the body is built; the unlink comes after the response or error is
\* built and before the handler leaves.
C8_StepOrder ==
    \A r \in Reqs :
        /\ pc[r] \in {"l51", "l54"} =>
              /\ temp_file[r].closed /\ temp_file[r].buf = <<>>
              /\ Exists(temp_file_path[r])
              /\ disk[temp_file_path[r]].data = file[r].payload
        /\ pc[r] = "l59" => (text_content[r] = OwnMarkdown(r) /\ Exists(temp_file_path[r]))
        /\ pending[r].kind = "body" => pending[r].text = OwnMarkdown(r)
        /\ unlinks[r] > 0 => (pending[r] # NoneRec /\ pc[r] \in {"l76", "done"})
        /\ (response[r] # NoneRec /\ Created(r)) => unlinks[r] = 1

C8_Witness ==
    \E r \in Reqs :
        /\ pc[r] = "l76" /\ pending[r].kind = "body" /\ cleanup[r] = "unlinked"
        /\ response[r] = NoneRec

\* the reference of C9: everything from the last '.' of the filename onward,
\* or the empty string
WholeNameSuffix(s) ==
    LET dots == {i \in 1..Len(s) : s[i] = "."}
    IN IF dots = {} THEN <<>>
       ELSE SubSeq(s, CHOOSE i \in dots : \A j \in dots : j <= i, Len(s))

\* C9 as stated: Path(filename).suffix is everything from the last '.' of the
\* filename onward, or the empty string when there is no '.'.
C9_SuffixIsFromLastDot ==
    fsuffix # Unset => fsuffix = WholeNameSuffix(fname)

\* the final component of s by positions: a character is kept when it is not a
\* '/' and not a '.' standing alone between separators
KeptPositions(s) ==
    {i \in 1..Len(s) :
        /\ s[i] # "/"
        /\ ~(/\ s[i] = "."
             /\ (i = 1 \/ s[i - 1] = "/")
             /\ (i = Len(s) \/ s[i + 1] = "/"))}

ComponentSuffix(s) ==
    LET kept == KeptPositions(s)
    IN IF kept = {} THEN <<>>
       ELSE LET hi == CHOOSE i \in kept : \A j \in kept : j <= i
                lo == CHOOSE i \in 1..hi :
                        /\ \A j \in i..hi : s[j] # "/"
                        /\ (i = 1 \/ s[i - 1] = "/")
                dots == {i \in lo..hi : s[i] = "."}
            IN IF dots = {} THEN <<>>
               ELSE LET d == CHOOSE i \in dots : \A j \in dots : j <= i
                    IN IF lo < d /\ d < hi THEN SubSeq(s, d, hi) ELSE <<>>

\* C9 amended: the suffix is taken from the final '/'-separated component of the
\* filename (empty and '.' components skipped): it is that component from its
\* last '.' onward when that '.' is neither the first nor the last character of
\* the component, and the empty string otherwise.
C9_SuffixOfFinalComponent ==
    fsuffix # Unset => fsuffix = ComponentSuffix(fname)

C9_Witness ==
    /\ fname = <<"a", ".", "a", "/">>
    /\ fsuffix = <<".", "a">>

\* C10: when the finally block is reached, temp_file being set implies that
\* temp_file_path is assigned, so the guard never reads an unassigned local;
\* when the creation of the file fails, temp_file is None, no unlink is made
\* and the caller gets the 500 of the creation failure.
C10_GuardWellDefined ==
    \A r \in Reqs :
        /\ (pc[r] = "l72" /\ Created(r)) => temp_file_path[r] # Unassigned
        /\ cleanup[r] # "UnboundLocalError"
        /\ e[r] = "create failed" =>
              /\ ~Created(r) /\ unlinks[r] = 0
              /\ pc[r] \in {"l76", "done"} => cleanup[r] = "skipped"
              /\ pc[r] = "done" =>
                    response[r] = [kind |-> "HTTPException", status_code |-> 500,
                                   detail |-> "Error processing document: create failed"]

C10_Witness ==
    \E r \in Reqs :
        /\ pc[r] = "done" /\ e[r] = "create failed" /\ cleanup[r] = "skipped"
        /\ response[r].kind = "HTTPException"
====
